---- MODULE Spec2Model ----
\* Outlives-predicate inference helper of rustc's type checker
\* (librustc_typeck/outlives/utils.rs): insert_outlives_predicate and
\* is_free_region, executed step by step on an explicit call stack.
EXTENDS Naturals, Sequences, FiniteSets

VARIABLES
    required_predicates, \* the RequiredPredicates set of the declaration under analysis
    stack,               \* active insert_outlives_predicate frames, innermost last
    panic,               \* "none", or the message of the bug!() that aborted the analysis
    call,                \* the driver's latest top-level call and the set it started from
    ncalls,              \* number of top-level calls made for this declaration
    fields,              \* the requirements of the declarations a batch is to analyse
    progress             \* where the batch stands, and the sets of the declarations done

vars == <<required_predicates, stack, panic, call, ncalls, fields, progress>>

\* ---------------------------------------------------------------- bounds
MaxComps == 2   \* longest component sequence the decomposition oracle returns
MaxCalls == 2   \* top-level calls the driver makes for one declaration

\* ---------------------------------------------------------------- data
ReStatic == [tag |-> "ReStatic"]
ReEarlyBound(name) == [tag |-> "ReEarlyBound", name |-> name]
ReLateBound == [tag |-> "ReLateBound"]

\* The variants of RegionKind that is_free_region rejects with bug!().
UnexpectedRegionTags ==
    {"ReEmpty", "ReErased", "ReClosureBound", "ReCanonical",
     "ReScope", "ReVar", "ReSkolemized", "ReFree"}

UnexpectedRegions == {[tag |-> t] : t \in UnexpectedRegionTags}

\* Regions the driver passes, as a lifetime argument or as outlived_region.
Regions ==
    {ReStatic, ReEarlyBound("a"), ReEarlyBound("b"), ReLateBound} \cup UnexpectedRegions

\* Regions a type argument is required to outlive.
TypeOutlivedRegions == {ReEarlyBound("a"), ReLateBound, [tag |-> "ReFree"]}

\* Regions a lifetime argument is required to outlive.
LifetimeOutlivedRegions == Regions \ {ReEarlyBound("b")}

\* Regions that occur inside the types the driver passes.
ComponentRegions ==
    {ReEarlyBound("b"), ReLateBound, [tag |-> "ReVar"]}

\* ty::outlives::Component
Components ==
    {[tag |-> "Region", r |-> r] : r \in ComponentRegions}
    \cup {[tag |-> "Param", name |-> "U"],
          [tag |-> "Projection", name |-> "T::Item"],
          [tag |-> "EscapingProjection", name |-> "T::Item"],
          [tag |-> "UnresolvedInferenceVariable"]}

\* All sequences over S of length at most n.
RECURSIVE SeqsUpTo(_, _)
SeqsUpTo(S, n) ==
    IF n = 0 THEN {<<>>}
    ELSE LET shorter == SeqsUpTo(S, n - 1)
         IN  shorter \cup {Append(s, x) : s \in {t \in shorter : Len(t) = n - 1}, x \in S}

\* Types. A declared field type is identified by the component sequence the
\* decomposition oracle returns for it; a type parameter and a projection
\* are the types that param_ty.to_ty and tcx.mk_projection build.
ParamTy(name) == [tag |-> "Param", name |-> name]
ProjectionTy(name) == [tag |-> "Projection", name |-> name]
FieldTy(comps) == [tag |-> "Field", comps |-> comps]

Types ==
    {FieldTy(c) : c \in SeqsUpTo(Components, MaxComps)}
    \cup {ParamTy("U"), ProjectionTy("T::Item")}

\* ty::subst::Kind, as seen through kind.unpack()
TypeKind(ty) == [unpack |-> "Type", ty |-> ty]
LifetimeKind(r) == [unpack |-> "Lifetime", r |-> r]

\* The requirements `kind: outlived_region` the driver derives from fields.
Requirements ==
    {<<TypeKind(ty), r>> : ty \in Types, r \in TypeOutlivedRegions}
    \cup {<<LifetimeKind(r1), r2>> : r1 \in Regions, r2 \in LifetimeOutlivedRegions}

OutlivesPredicate(kind, region) == [kind |-> kind, region |-> region]

\* ---------------------------------------------------------------- oracles
\* tcx.outlives_components(ty): deterministic and total.
outlives_components(ty) ==
    CASE ty.tag = "Field" -> ty.comps
      [] ty.tag = "Param" -> <<[tag |-> "Param", name |-> ty.name]>>
      [] ty.tag = "Projection" -> <<[tag |-> "Projection", name |-> ty.name]>>

\* Structural sort key of a region: position of the variant in RegionKind,
\* then the parameter name.
RegionTagOrder ==
    <<"ReEarlyBound", "ReLateBound", "ReFree", "ReScope", "ReStatic", "ReVar",
      "ReSkolemized", "ReEmpty", "ReErased", "ReClosureBound", "ReCanonical">>

IndexOf(seq, x) == CHOOSE i \in 1..Len(seq) : seq[i] = x

RegionKey(r) ==
    IndexOf(RegionTagOrder, r.tag) * 2
    + (IF r.tag = "ReEarlyBound" /\ r.name = "b" THEN 1 ELSE 0)

\* Lifetimes sort before types; projections before parameters.
KindKey(kind) ==
    IF kind.unpack = "Lifetime" THEN RegionKey(kind.r)
    ELSE CASE kind.ty.tag = "Projection" -> 40
           [] kind.ty.tag = "Param" -> 41
           [] kind.ty.tag = "Field" -> 42

PredKey(p) == KindKey(p.kind) * 100 + RegionKey(p.region)

Elems(s) == {s[i] : i \in 1..Len(s)}

\* BTreeSet::insert: an element already present is left alone, a new one
\* goes to its place in the sort order.
insert(set, value) ==
    IF value \in Elems(set) THEN set
    ELSE LET n == Cardinality({i \in 1..Len(set) : PredKey(set[i]) < PredKey(value)})
         IN  SubSeq(set, 1, n) \o <<value>> \o SubSeq(set, n + 1, Len(set))

\* ---------------------------------------------------------------- is_free_region
\* As is_free_region, with ReLateBound moved to the first arm.
is_free_region_late_true(region) ==
    CASE region.tag \in {"ReStatic", "ReEarlyBound", "ReLateBound"} -> "true"
      [] region.tag \in UnexpectedRegionTags -> "bug"

\* As is_free_region, with ReLateBound moved to the last arm.
is_free_region_late_bug(region) ==
    CASE region.tag \in {"ReStatic", "ReEarlyBound"} -> "true"
      [] region.tag \in UnexpectedRegionTags \cup {"ReLateBound"} -> "bug"

is_free_region(region) ==
    CASE region.tag \in {"ReStatic", "ReEarlyBound"} -> "true"
      [] region.tag = "ReLateBound" -> "false"
      [] region.tag \in {"ReEmpty", "ReErased", "ReClosureBound", "ReCanonical",
                         "ReScope", "ReVar", "ReSkolemized", "ReFree"} -> "bug"

UnexpectedRegionMsg == "unexpected region in outlives inference"
NotUsingInfcxMsg == "not using infcx"

\* ty::OutlivesPredicate(kind, outlived_region), for a lifetime argument.
LifetimePredicate_self(kind, outlived_region) == OutlivesPredicate(kind, kind.r)

LifetimePredicate(kind, outlived_region) == OutlivesPredicate(kind, outlived_region)

\* ty::OutlivesPredicate(param_ty.to_ty(tcx).into(), outlived_region)
ParamPredicate(param_ty, outlived_region) ==
    OutlivesPredicate(TypeKind(ParamTy(param_ty.name)), outlived_region)

\* ty::OutlivesPredicate(tcx.mk_projection(..).into(), outlived_region)
ProjectionPredicate(proj_ty, outlived_region) ==
    OutlivesPredicate(TypeKind(ProjectionTy(proj_ty.name)), outlived_region)

\* ---------------------------------------------------------------- the call stack
NoCall == [made |-> FALSE, returned |-> FALSE]

Frame(kind, outlived_region) ==
    [kind |-> kind, outlived_region |-> outlived_region,
     pc |-> "is_free_outlived", components |-> <<>>]

Running == stack # <<>> /\ panic = "none"
Idle == stack = <<>> /\ panic = "none"
Top == stack[Len(stack)]
SetTop(f) == [stack EXCEPT ![Len(stack)] = f]
Popped == SubSeq(stack, 1, Len(stack) - 1)

\* The bug!() macro: the analysis of the declaration is aborted where it stands.
Bug(msg) ==
    /\ panic' = msg
    /\ UNCHANGED <<required_predicates, stack, call, ncalls, fields, progress>>

\* `return`, or falling off the end of the function.
Return ==
    /\ stack' = Popped
    /\ call' = [call EXCEPT !.returned = (Len(stack) = 1)]
    /\ UNCHANGED <<required_predicates, panic, ncalls, fields, progress>>

NoBatch == [decl |-> 1, next |-> 1, done |-> <<>>]

Init ==
    /\ required_predicates = <<>>
    /\ stack = <<>>
    /\ panic = "none"
    /\ call = NoCall
    /\ ncalls = 0
    /\ fields = <<>>
    /\ progress = NoBatch

InBatch == fields # <<>>

\* The driver calls insert_outlives_predicate(tcx, kind, outlived_region, required_predicates).
Invoke(kind, outlived_region, repeated) ==
    /\ Idle
    /\ stack' = <<Frame(kind, outlived_region)>>
    /\ call' = [made |-> TRUE, returned |-> FALSE,
                kind |-> kind, outlived_region |-> outlived_region,
                pre |-> required_predicates, repeated |-> repeated]
    /\ ncalls' = ncalls + 1
    /\ UNCHANGED <<required_predicates, panic>>

\* A requirement derived from the next field of the declaration.
Call ==
    /\ Idle
    /\ ncalls < MaxCalls
    /\ ~call.returned
    /\ \E req \in Requirements : Invoke(req[1], req[2], FALSE)
    /\ UNCHANGED <<fields, progress>>

\* The same requirement is found again (a second field of the same type).
CallAgain ==
    /\ ncalls < MaxCalls
    /\ call.returned
    /\ Invoke(call.kind, call.outlived_region, TRUE)
    /\ UNCHANGED <<fields, progress>>

\* The driver is done with the requirement and moves to the next field.
NextField ==
    /\ Idle
    /\ call.returned
    /\ ~InBatch
    /\ call' = NoCall
    /\ UNCHANGED <<required_predicates, stack, panic, ncalls, fields, progress>>

\* As CheckOutlived, with the negation dropped from the test.
CheckOutlived_inverted ==
    /\ Running
    /\ Top.pc = "is_free_outlived"
    /\ LET free == is_free_region(Top.outlived_region)
       IN  \/ free = "bug" /\ Bug(UnexpectedRegionMsg)
           \/ free = "true" /\ Return
           \/ /\ free = "false"
              /\ stack' = SetTop([Top EXCEPT !.pc = "unpack"])
              /\ UNCHANGED <<required_predicates, panic, call, ncalls, fields, progress>>

\* if !is_free_region(outlived_region) { return; }
CheckOutlived ==
    /\ Running
    /\ Top.pc = "is_free_outlived"
    /\ LET free == is_free_region(Top.outlived_region)
       IN  \/ free = "bug" /\ Bug(UnexpectedRegionMsg)
           \/ free = "false" /\ Return
           \/ /\ free = "true"
              /\ stack' = SetTop([Top EXCEPT !.pc = "unpack"])
              /\ UNCHANGED <<required_predicates, panic, call, ncalls, fields, progress>>

Reverse(seq) == [i \in 1..Len(seq) |-> seq[Len(seq) + 1 - i]]

\* As TypeArm, walking the components from the last to the first.
TypeArm_reversed ==
    /\ Running
    /\ Top.pc = "unpack"
    /\ Top.kind.unpack = "Type"
    /\ stack' = SetTop([Top EXCEPT !.pc = "for",
                                   !.components = Reverse(outlives_components(Top.kind.ty))])
    /\ UNCHANGED <<required_predicates, panic, call, ncalls, fields, progress>>

\* UnpackedKind::Type(ty) => for component in tcx.outlives_components(ty)
TypeArm ==
    /\ Running
    /\ Top.pc = "unpack"
    /\ Top.kind.unpack = "Type"
    /\ stack' = SetTop([Top EXCEPT !.pc = "for",
                                   !.components = outlives_components(Top.kind.ty)])
    /\ UNCHANGED <<required_predicates, panic, call, ncalls, fields, progress>>

\* As LifetimeArm, without the test of r.
LifetimeArm_unchecked ==
    /\ Running
    /\ Top.pc = "unpack"
    /\ Top.kind.unpack = "Lifetime"
    /\ required_predicates' =
           insert(required_predicates, LifetimePredicate(Top.kind, Top.outlived_region))
    /\ stack' = Popped
    /\ call' = [call EXCEPT !.returned = (Len(stack) = 1)]
    /\ UNCHANGED <<panic, ncalls, fields, progress>>

\* UnpackedKind::Lifetime(r) => { if !is_free_region(r) { return; } insert }
LifetimeArm ==
    /\ Running
    /\ Top.pc = "unpack"
    /\ Top.kind.unpack = "Lifetime"
    /\ LET free == is_free_region(Top.kind.r)
       IN  \/ free = "bug" /\ Bug(UnexpectedRegionMsg)
           \/ free = "false" /\ Return
           \/ /\ free = "true"
              /\ required_predicates' =
                     insert(required_predicates,
                            LifetimePredicate(Top.kind, Top.outlived_region))
              /\ stack' = Popped
              /\ call' = [call EXCEPT !.returned = (Len(stack) = 1)]
              /\ UNCHANGED <<panic, ncalls, fields, progress>>

InLoop(tag) ==
    /\ Running
    /\ Top.pc = "for"
    /\ Top.components # <<>>
    /\ Head(Top.components).tag = tag

Advance == SetTop([Top EXCEPT !.components = Tail(Top.components)])

\* As ComponentRegion, passing kind on instead of r.into().
ComponentRegion_same_kind ==
    /\ InLoop("Region")
    /\ stack' = Append(Advance, Frame(Top.kind, Top.outlived_region))
    /\ UNCHANGED <<required_predicates, panic, call, ncalls, fields, progress>>

\* Component::Region(r) => insert_outlives_predicate(tcx, r.into(), outlived_region, ..)
ComponentRegion ==
    /\ InLoop("Region")
    /\ stack' = Append(Advance,
                       Frame(LifetimeKind(Head(Top.components).r), Top.outlived_region))
    /\ UNCHANGED <<required_predicates, panic, call, ncalls, fields, progress>>

\* As ComponentParam, appending to a list instead of inserting into the set.
ComponentParam_push ==
    /\ InLoop("Param")
    /\ required_predicates' =
           Append(required_predicates,
                  ParamPredicate(Head(Top.components), Top.outlived_region))
    /\ stack' = Advance
    /\ UNCHANGED <<panic, call, ncalls, fields, progress>>

\* Component::Param(param_ty) => insert (param_ty.to_ty(tcx), outlived_region)
ComponentParam ==
    /\ InLoop("Param")
    /\ required_predicates' =
           insert(required_predicates,
                  ParamPredicate(Head(Top.components), Top.outlived_region))
    /\ stack' = Advance
    /\ UNCHANGED <<panic, call, ncalls, fields, progress>>

\* As ComponentProjection, appending to a list instead of inserting into the set.
ComponentProjection_push ==
    /\ InLoop("Projection")
    /\ required_predicates' =
           Append(required_predicates,
                  ProjectionPredicate(Head(Top.components), Top.outlived_region))
    /\ stack' = Advance
    /\ UNCHANGED <<panic, call, ncalls, fields, progress>>

\* Component::Projection(proj_ty) => insert (tcx.mk_projection(..), outlived_region)
ComponentProjection ==
    /\ InLoop("Projection")
    /\ required_predicates' =
           insert(required_predicates,
                  ProjectionPredicate(Head(Top.components), Top.outlived_region))
    /\ stack' = Advance
    /\ UNCHANGED <<panic, call, ncalls, fields, progress>>

\* As ComponentEscapingProjection, handled like Component::Projection.
ComponentEscapingProjection_insert ==
    /\ InLoop("EscapingProjection")
    /\ required_predicates' =
           insert(required_predicates,
                  ProjectionPredicate(Head(Top.components), Top.outlived_region))
    /\ stack' = Advance
    /\ UNCHANGED <<panic, call, ncalls, fields, progress>>

\* Component::EscapingProjection(_) => {}
ComponentEscapingProjection ==
    /\ InLoop("EscapingProjection")
    /\ stack' = Advance
    /\ UNCHANGED <<required_predicates, panic, call, ncalls, fields, progress>>

\* Component::UnresolvedInferenceVariable(_) => bug!("not using infcx")
ComponentUnresolvedInferenceVariable ==
    /\ InLoop("UnresolvedInferenceVariable")
    /\ Bug(NotUsingInfcxMsg)

\* The loop is exhausted and the function returns.
EndFor ==
    /\ Running
    /\ Top.pc = "for"
    /\ Top.components = <<>>
    /\ Return

Step ==
    \/ CheckOutlived
    \/ TypeArm
    \/ LifetimeArm
    \/ ComponentRegion
    \/ ComponentParam
    \/ ComponentProjection
    \/ ComponentEscapingProjection
    \/ ComponentUnresolvedInferenceVariable
    \/ EndFor

Next == Call \/ CallAgain \/ NextField \/ Step

Spec == Init /\ [][Next]_vars

\* A call that has been entered runs on: nothing suspends it.
FairSpec == Spec /\ WF_vars(Step)

\* ---------------------------------------------------------------- a batch of two
\* Two declarations whose fields give the same requirements, the last two
\* in opposite orders.
MaxPairComps == 1   \* longest component sequence of the two swapped requirements

PairComponents ==
    {[tag |-> "Region", r |-> ReEarlyBound("b")],
     [tag |-> "Param", name |-> "U"],
     [tag |-> "Projection", name |-> "T::Item"],
     [tag |-> "EscapingProjection", name |-> "T::Item"],
     [tag |-> "UnresolvedInferenceVariable"]}

PairRequirements ==
    {<<TypeKind(FieldTy(c)), r>> :
         c \in SeqsUpTo(PairComponents, MaxPairComps), r \in {ReStatic, ReEarlyBound("a")}}
    \cup {<<LifetimeKind(r1), r2>> :
              r1 \in {ReEarlyBound("b"), ReLateBound, [tag |-> "ReVar"]},
              r2 \in {ReEarlyBound("a"), ReLateBound, [tag |-> "ReFree"]}}

\* What the fields before the two swapped ones require.
SharedRequirements ==
    {<<>>,
     <<(<<TypeKind(FieldTy(<<[tag |-> "Region", r |-> ReEarlyBound("b")],
                             [tag |-> "Param", name |-> "U"]>>)),
          ReEarlyBound("a")>>)>>}

InitPair ==
    /\ required_predicates = <<>>
    /\ stack = <<>>
    /\ panic = "none"
    /\ call = NoCall
    /\ ncalls = 0
    /\ progress = NoBatch
    /\ \E shared \in SharedRequirements, q1 \in PairRequirements, q2 \in PairRequirements :
           fields = <<shared \o <<q1, q2>>, shared \o <<q2, q1>>>>

\* The next requirement of the declaration under analysis.
PlannedCall ==
    /\ InBatch
    /\ progress.decl <= Len(fields)
    /\ progress.next <= Len(fields[progress.decl])
    /\ LET req == fields[progress.decl][progress.next]
       IN  Invoke(req[1], req[2], FALSE)
    /\ progress' = [progress EXCEPT !.next = @ + 1]
    /\ UNCHANGED fields

\* The declaration is done: its set is handed on and the next declaration
\* starts from a fresh one.
NextDeclaration ==
    /\ InBatch
    /\ Idle
    /\ progress.decl <= Len(fields)
    /\ progress.next > Len(fields[progress.decl])
    /\ progress' = [decl |-> progress.decl + 1, next |-> 1,
                    done |-> Append(progress.done, required_predicates)]
    /\ required_predicates' = <<>>
    /\ call' = NoCall
    /\ ncalls' = 0
    /\ UNCHANGED <<stack, panic, fields>>

NextPair == PlannedCall \/ NextDeclaration \/ Step

SpecPair == InitPair /\ [][NextPair]_vars

\* ================================================================ properties
FreeRegion(r) == r.tag = "ReStatic" \/ r.tag = "ReEarlyBound"
LateBoundRegion(r) == r.tag = "ReLateBound"
IllegalRegion(r) == r.tag \in UnexpectedRegionTags

\* The set holds exactly the predicates of S, each once.
Holds(S) ==
    /\ Elems(required_predicates) = S
    /\ Len(required_predicates) = Cardinality(S)

\* What one component is to add for outlived region o.
Contribution(c, o) ==
    CASE c.tag = "Region" ->
             IF FreeRegion(c.r) THEN {OutlivesPredicate(LifetimeKind(c.r), o)} ELSE {}
      [] c.tag = "Param" -> {OutlivesPredicate(TypeKind(ParamTy(c.name)), o)}
      [] c.tag = "Projection" -> {OutlivesPredicate(TypeKind(ProjectionTy(c.name)), o)}
      [] OTHER -> {}

Contributions(comps, o) == UNION {Contribution(comps[i], o) : i \in 1..Len(comps)}

FatalComponent(c) ==
    \/ c.tag = "UnresolvedInferenceVariable"
    \/ c.tag = "Region" /\ IllegalRegion(c.r)

TypeCall == call.made /\ call.kind.unpack = "Type"
LifetimeCall == call.made /\ call.kind.unpack = "Lifetime"
CallComponents == outlives_components(call.kind.ty)

RegionC(r) == [tag |-> "Region", r |-> r]
ParamU == [tag |-> "Param", name |-> "U"]
ProjectionItem == [tag |-> "Projection", name |-> "T::Item"]
Unresolved == [tag |-> "UnresolvedInferenceVariable"]

\* C1: whatever calls were made on a fresh set, the second element of every
\* recorded predicate is ReStatic or ReEarlyBound.
C1_SecondElementFree ==
    \A p \in Elems(required_predicates) : FreeRegion(p.region)

\* A non-empty set after a second call whose outlived region was late-bound.
C1_Witness ==
    /\ call.made /\ call.returned
    /\ ncalls = 2
    /\ call.outlived_region = ReLateBound
    /\ call.kind.unpack = "Lifetime"
    /\ required_predicates # <<>>

\* C2: a type argument with a free outlived region and a decomposition free
\* of fatal components never fails and returns with the prior set plus the
\* contribution of every component; escaping projections and late-bound
\* region components add nothing.
C2_TypeValueResult ==
    /\ (/\ TypeCall
        /\ FreeRegion(call.outlived_region)
        /\ \A i \in 1..Len(CallComponents) : ~FatalComponent(CallComponents[i]))
       => /\ panic = "none"
          /\ call.returned =>
                 Holds(Elems(call.pre) \cup Contributions(CallComponents, call.outlived_region))
          /\ (/\ call.returned
              /\ \A i \in 1..Len(CallComponents) : CallComponents[i].tag = "EscapingProjection")
             => required_predicates = call.pre
    /\ (/\ TypeCall /\ call.returned
        /\ call.kind.ty = FieldTy(<<RegionC(ReEarlyBound("b")), ParamU>>)
        /\ call.outlived_region = ReEarlyBound("a")
        /\ call.pre = <<>>)
       => required_predicates =
              <<OutlivesPredicate(LifetimeKind(ReEarlyBound("b")), ReEarlyBound("a")),
                OutlivesPredicate(TypeKind(ParamTy("U")), ReEarlyBound("a"))>>
    /\ (/\ TypeCall /\ call.returned
        /\ call.kind.ty = FieldTy(<<ProjectionItem>>)
        /\ call.outlived_region = ReEarlyBound("a")
        /\ call.pre = <<>>)
       => required_predicates =
              <<OutlivesPredicate(TypeKind(ProjectionTy("T::Item")), ReEarlyBound("a"))>>

\* The reference-to-parameter example has returned on a non-empty prior set.
C2_Witness ==
    /\ TypeCall /\ call.returned
    /\ call.kind.ty = FieldTy(<<RegionC(ReEarlyBound("b")), ParamU>>)
    /\ call.outlived_region = ReEarlyBound("a")
    /\ call.pre = <<OutlivesPredicate(LifetimeKind(ReEarlyBound("a")), ReStatic)>>
    /\ Len(required_predicates) = 3

\* C3: a lifetime argument r with a free outlived region never fails when r
\* is free or late-bound; it returns with the prior set plus (r, outlived)
\* when r is free, and leaves the set as it was when r is late-bound.
C3_RegionValueResult ==
    /\ (LifetimeCall /\ FreeRegion(call.outlived_region) /\ FreeRegion(call.kind.r))
       => /\ panic = "none"
          /\ call.returned =>
                 Holds(Elems(call.pre)
                       \cup {OutlivesPredicate(call.kind, call.outlived_region)})
    /\ (LifetimeCall /\ FreeRegion(call.outlived_region) /\ LateBoundRegion(call.kind.r))
       => /\ panic = "none"
          /\ required_predicates = call.pre
    /\ (/\ LifetimeCall /\ call.returned
        /\ call.kind.r = ReEarlyBound("b")
        /\ call.outlived_region = ReEarlyBound("a")
        /\ call.pre = <<>>)
       => required_predicates =
              <<OutlivesPredicate(LifetimeKind(ReEarlyBound("b")), ReEarlyBound("a"))>>

\* 'b: 'a has been added to a set that held something else.
C3_Witness ==
    /\ LifetimeCall /\ call.returned
    /\ call.kind.r = ReEarlyBound("b")
    /\ call.outlived_region = ReEarlyBound("a")
    /\ call.pre # <<>>
    /\ Len(required_predicates) = Len(call.pre) + 1

\* C4: a call that returned, made again at once with the same arguments,
\* returns too and leaves the set exactly as the first call left it.
C4_Idempotent ==
    (call.made /\ call.repeated)
    => /\ panic = "none"
       /\ call.returned => required_predicates = call.pre

\* A call that had added two predicates was repeated and has returned.
C4_Witness ==
    /\ call.made /\ call.repeated /\ call.returned
    /\ call.kind.unpack = "Type"
    /\ Len(required_predicates) = 2

\* C6 as stated: every failure is is_free_region's, met on a region it rejects.
C6_OnlyRegionFailure ==
    panic # "none" => panic = UnexpectedRegionMsg

\* C6 amended: a call fails either in is_free_region, applied to the outlived
\* region or to a lifetime argument of a variant it rejects, or at an
\* unresolved inference variable among the components of a type.
C6_OnlyTwoFailures ==
    panic # "none"
    => \/ /\ panic = UnexpectedRegionMsg
          /\ \/ Top.pc = "is_free_outlived" /\ IllegalRegion(Top.outlived_region)
             \/ /\ Top.pc = "unpack"
                /\ Top.kind.unpack = "Lifetime"
                /\ IllegalRegion(Top.kind.r)
       \/ /\ panic = NotUsingInfcxMsg
          /\ Top.pc = "for"
          /\ Top.components # <<>>
          /\ Head(Top.components).tag = "UnresolvedInferenceVariable"

\* The loop met an unresolved inference variable after a parameter.
C6_Witness ==
    /\ panic = NotUsingInfcxMsg
    /\ TypeCall
    /\ call.kind.ty = FieldTy(<<ParamU, Unresolved>>)
    /\ Len(required_predicates) = Len(call.pre) + 1

\* C7: with an outlived region that is not free nothing is inserted and kind
\* is neither classified nor decomposed; the call never returns when the
\* region is one is_free_region rejects and never fails when it is late-bound.
C7_NonFreeOutlived ==
    (call.made /\ ~FreeRegion(call.outlived_region))
    => /\ required_predicates = call.pre
       /\ Len(stack) <= 1
       /\ \A i \in 1..Len(stack) : stack[i].pc = "is_free_outlived"
       /\ IllegalRegion(call.outlived_region)
          => /\ ~call.returned
             /\ panic \in {"none", UnexpectedRegionMsg}
       /\ LateBoundRegion(call.outlived_region) => panic = "none"

\* A type with an unresolved inference variable was passed with a late-bound
\* outlived region, and the call returned.
C7_Witness ==
    /\ TypeCall /\ call.returned
    /\ call.outlived_region = ReLateBound
    /\ call.kind.ty = FieldTy(<<Unresolved, ParamU>>)
    /\ call.pre # <<>>

\* C8: a call that is running comes to an end, by returning to the driver or
\* by bug!(); at most two frames are ever active, the inner one made by the
\* loop of a type argument for a lifetime argument, which never loops itself.
C8_TerminatesDepthBounded ==
    /\ [](/\ Len(stack) <= 2
          /\ Len(stack) = 2
             => /\ stack[1].kind.unpack = "Type"
                /\ stack[1].pc = "for"
                /\ stack[2].kind.unpack = "Lifetime"
                /\ stack[2].pc # "for")
    /\ (Running ~> ~Running)

\* The nested call for the second of two region components is active.
C8_Witness ==
    /\ Running
    /\ Len(stack) = 2
    /\ stack[1].kind.ty = FieldTy(<<RegionC(ReEarlyBound("b")), RegionC(ReLateBound)>>)
    /\ stack[1].components = <<>>
    /\ stack[2].pc = "unpack"

\* The sequence lists its elements in strictly rising sort order.
Canonical(set) ==
    \A i \in 1..Len(set), j \in 1..Len(set) : i < j => PredKey(set[i]) < PredKey(set[j])

\* C5: two declarations that make the same two calls in opposite orders on
\* equal sets end, when neither call fails, with the same set, listed in the
\* same order and holding each predicate once.
C5_OrderIndependent ==
    Len(progress.done) = 2
    => /\ progress.done[1] = progress.done[2]
       /\ Canonical(progress.done[1])
       /\ Len(progress.done[1]) = Cardinality(Elems(progress.done[1]))

\* Both orders are done for two fields that require U: 'a, one of them
\* together with the projection, after a field that required U: 'a already.
C5_Witness ==
    /\ Len(progress.done) = 2
    /\ Len(fields[1]) = 3
    /\ fields[1][2] = <<TypeKind(FieldTy(<<ParamU>>)), ReEarlyBound("a")>>
    /\ fields[1][3] = <<TypeKind(FieldTy(<<ProjectionItem>>)), ReStatic>>
    /\ Len(progress.done[2]) = 3

\* Position of the first fatal component.
FirstFatal(comps) ==
    CHOOSE i \in 1..Len(comps) :
        /\ FatalComponent(comps[i])
        /\ \A j \in 1..(i - 1) : ~FatalComponent(comps[j])

\* C9: when a type argument with a free outlived region fails, the set holds
\* the prior set plus what the components before the first fatal one add.
C9_NoRollback ==
    /\ (/\ TypeCall
        /\ FreeRegion(call.outlived_region)
        /\ \E i \in 1..Len(CallComponents) : FatalComponent(CallComponents[i]))
       => ~call.returned
    /\ (TypeCall /\ FreeRegion(call.outlived_region) /\ panic # "none")
       => /\ \E i \in 1..Len(CallComponents) : FatalComponent(CallComponents[i])
          /\ Holds(Elems(call.pre)
                   \cup Contributions(
                            SubSeq(CallComponents, 1, FirstFatal(CallComponents) - 1),
                            call.outlived_region))

\* A failure at the second component, after the first one added a predicate.
C9_Witness ==
    /\ TypeCall /\ panic # "none"
    /\ call.kind.ty = FieldTy(<<ParamU, RegionC([tag |-> "ReVar"])>>)
    /\ call.outlived_region = ReEarlyBound("a")
    /\ call.pre # <<>>
    /\ Len(required_predicates) = Len(call.pre) + 1

\* C10: the first element of a recorded predicate is never a late-bound or
\* rejected region, and no step takes a predicate out of the set.
C10_FirstElementFree ==
    /\ [](\A p \in Elems(required_predicates) :
              p.kind.unpack = "Lifetime" => FreeRegion(p.kind.r))
    /\ [][Elems(required_predicates) \subseteq Elems(required_predicates')]_vars

\* A type with a late-bound and a free region component returned having
\* added only the free one.
C10_Witness ==
    /\ TypeCall /\ call.returned
    /\ call.kind.ty = FieldTy(<<RegionC(ReLateBound), RegionC(ReEarlyBound("b"))>>)
    /\ call.pre = <<>>
    /\ Len(required_predicates) = 1

====
